---- MODULE Spec2Model ----
(***************************************************************************)
(* Model of the image compressor: compress_image and main of               *)
(* image_compressor.py, and the interactive front end of script.py.        *)
(*                                                                         *)
(* A path is a tuple of one-character strings, so that suffix, stem,       *)
(* parent and lower-casing are computed from the spelling of the path.     *)
(* The imaging library and the file system are the environment: every call *)
(* the program makes on them is appended to the trace io.                  *)
(***************************************************************************)
EXTENDS Integers, Sequences, FiniteSets, TLC

VARIABLES
    fs,         \* the file system: path -> content of the file, or Absent
    pc,         \* position of the run: "start", "quality_prompt", "done"
    entry,      \* which program runs: "compress_image", "main", "script"
    request,    \* the arguments of the run
    io,         \* calls made on the file system and the imaging library
    raised,     \* the exception that escaped compress_image (<<>> if none)
    returned,   \* the value compress_image returned (NoPath if none)
    exitcode,   \* exit code of the process (NoneInt while running)
    stdout,     \* lines printed to standard output
    stderr,     \* lines printed to standard error
    invoked,    \* the functions of the repository that were called
    file_path,  \* script.py: the answer of the file picker
    quality     \* script.py: the answer of the quality prompt

vars == <<fs, pc, entry, request, io, raised, returned, exitcode, stdout,
          stderr, invoked, file_path, quality>>

----------------------------------------------------------------------------
(* Bounds of the model *)

\* Largest width and height of a stored image and largest resize bound.
MaxDim == 3

----------------------------------------------------------------------------
(* Values *)

\* Python's None for an integer argument (max_width, max_height, quality).
NoneInt == -1

\* Python's None for output_path, and the empty string of a cancelled picker.
NoPath == <<>>

\* Default of the quality parameter.
DefaultQuality == 85

\* Range the command line accepts for -q.
MinQuality == 1
MaxQuality == 100

\* Largest value the quality prompt of script.py accepts.
PromptMaxQuality == 500

Absent == [kind |-> "absent"]
Garbage == [kind |-> "garbage"]

\* Colour modes of a decoded image; RGBA and LA carry an alpha channel.
Modes == {"RGB", "RGBA", "LA"}
HasAlpha(mode) == mode \in {"RGBA", "LA"}

\* What wrote a file: the encoder and the quality it was given; FromSource for
\* a file that was there before the run.
WrittenBy(fmt, q) == [fmt |-> fmt, quality |-> q]
FromSource == WrittenBy("source", NoneInt)

\* A file holding an image: its size, its colour mode, and what wrote it.
ImageFile(w, h, mode, by) ==
    [kind |-> "image", w |-> w, h |-> h, mode |-> mode, by |-> by]

----------------------------------------------------------------------------
(* Paths: str.lower, pathlib.Path.suffix/.stem/.parent, os.path.splitext *)

P_a_png   == <<"d", "/", "a", ".", "p", "n", "g">>
P_b_JPG   == <<"b", ".", "J", "P", "G">>
P_c_jpeg  == <<"d", "/", "c", ".", "j", "p", "e", "g">>
P_e_bmp   == <<"d", "/", "e", ".", "b", "m", "p">>
P_f       == <<"d", "/", "f">>

O_o_png   == <<"o", ".", "p", "n", "g">>
O_o_JPG   == <<"d", "/", "o", ".", "J", "P", "G">>
O_o_bmp   == <<"o", ".", "b", "m", "p">>
O_x_o_png == <<"x", "/", "o", ".", "p", "n", "g">>

\* Directories that exist; "x" does not, so a save into it fails.
Dirs == {<<".">>, <<"d">>}

UpperToLower ==
    [c \in {"J", "P", "G", "N", "E", "B", "M"} |->
        CASE c = "J" -> "j" [] c = "P" -> "p" [] c = "G" -> "g"
          [] c = "N" -> "n" [] c = "E" -> "e" [] c = "B" -> "b"
          [] c = "M" -> "m"]

\* str.lower()
Lower(s) ==
    [i \in 1..Len(s) |->
        IF s[i] \in DOMAIN UpperToLower THEN UpperToLower[s[i]] ELSE s[i]]

\* str.rfind(c), 1-based; 0 when c does not occur.
RFind(s, c) ==
    LET hits == {i \in 1..Len(s) : s[i] = c}
    IN  IF hits = {} THEN 0 ELSE CHOOSE i \in hits : \A j \in hits : j <= i

\* Path(p).name
Name(p) == SubSeq(p, RFind(p, "/") + 1, Len(p))

\* Path(p).parent
Parent(p) ==
    IF RFind(p, "/") = 0 THEN <<".">> ELSE SubSeq(p, 1, RFind(p, "/") - 1)

\* Path(p).suffix: from the last dot of the name, unless that dot is the first
\* or the last character of the name.
Suffix(p) ==
    LET name == Name(p)
        i    == RFind(name, ".")
    IN  IF 1 < i /\ i < Len(name) THEN SubSeq(name, i, Len(name)) ELSE <<>>

\* Path(p).stem
Stem(p) ==
    LET name == Name(p)
        i    == RFind(name, ".")
    IN  IF 1 < i /\ i < Len(name) THEN SubSeq(name, 1, i - 1) ELSE name

\* parent / name, as pathlib joins and prints it ("." is dropped).
JoinPath(parent, name) ==
    IF parent = <<".">> THEN name ELSE parent \o <<"/">> \o name

\* os.path.splitext(p): <<base, ext>>, split at the last dot of the last
\* component unless only dots precede it there.
SplitExt(p) ==
    LET sep == RFind(p, "/")
        dot == RFind(p, ".")
    IN  IF dot > sep /\ \E j \in (sep + 1)..(dot - 1) : p[j] # "."
        THEN <<SubSeq(p, 1, dot - 1), SubSeq(p, dot, Len(p))>>
        ELSE <<p, <<>> >>

\* str.endswith(suffixes)
EndsWith(s, suffixes) ==
    \E x \in suffixes :
        Len(x) <= Len(s) /\ SubSeq(s, Len(s) - Len(x) + 1, Len(s)) = x

E_png  == <<".", "p", "n", "g">>
E_jpg  == <<".", "j", "p", "g">>
E_jpeg == <<".", "j", "p", "e", "g">>
E_tiff == <<".", "t", "i", "f", "f">>
E_bmp  == <<".", "b", "m", "p">>

\* supported_formats of compress_image
supported_formats == {E_png, E_jpg, E_jpeg}

\* the extensions image_compressor of script.py accepts
script_formats == {E_jpg, E_jpeg, E_png, E_tiff, E_bmp}

----------------------------------------------------------------------------
(* Resize arithmetic *)

\* Python truthiness of an optional integer: None and 0 are false.
Truthy(n) == n # NoneInt /\ n # 0

\* int(a * (b / c)) for a >= 0, b >= 0, c > 0: the double product truncated
\* toward zero.  For all a, b, c <= 12 the double product truncates to the
\* exact floor of a*b/c (rounding error first shows at 22x22 with bound 15,
\* which gives 14 and not 15), so within the bounds of this model it is \div.
IntScale(a, b, c) == (a * b) \div c

\* new_width, new_height of compress_image for an image of size W x H.
NewSize(W, H, max_width, max_height) ==
    LET w1 == IF Truthy(max_width) /\ W > max_width THEN max_width ELSE W
        h1 == IF Truthy(max_width) /\ W > max_width
              THEN IntScale(H, max_width, W) ELSE H
        w2 == IF Truthy(max_height) /\ h1 > max_height
              THEN IntScale(w1, max_height, h1) ELSE w1
        h2 == IF Truthy(max_height) /\ h1 > max_height THEN max_height ELSE h1
    IN  <<w2, h2>>

----------------------------------------------------------------------------
(* The file system and the imaging library *)

Exists(f, p) == p \in DOMAIN f /\ f[p] # Absent

\* f with file p holding content c.
WriteFile(f, p, c) == [x \in DOMAIN f \cup {p} |-> IF x = p THEN c ELSE f[x]]

Exc(type, msg) == [type |-> type, msg |-> msg]

\* Colour modes each encoder of the imaging library can write.
EncoderAccepts(fmt, mode) ==
    CASE fmt = "PNG"  -> TRUE
      [] fmt = "JPEG" -> ~HasAlpha(mode)
      [] fmt = "BMP"  -> mode \in {"RGB", "RGBA"}
      [] fmt = "TIFF" -> TRUE
      [] OTHER        -> FALSE

\* Image.save(path, ...): the encoder call is appended to the trace; the file
\* is written when the directory exists and the encoder accepts the mode.
\* A save that fails after opening the file leaves it truncated, or removes
\* it when the library created it and cleans up (partial = FALSE).
SaveOk(path, fmt, mode) == Parent(path) \in Dirs /\ EncoderAccepts(fmt, mode)

SaveFile(f, path, img, fmt, q, partial) ==
    IF SaveOk(path, fmt, img.mode)
    THEN WriteFile(f, path, ImageFile(img.w, img.h, img.mode,
                                      WrittenBy(fmt, q)))
    ELSE IF Parent(path) \notin Dirs THEN f
    ELSE IF Exists(f, path) \/ partial THEN WriteFile(f, path, Garbage)
    ELSE f

SaveCall(path, img, fmt, q, flattened) ==
    [call |-> "save", path |-> path, fmt |-> fmt, quality |-> q,
     optimize |-> TRUE, w |-> img.w, h |-> img.h, mode |-> img.mode,
     flattened |-> flattened]

----------------------------------------------------------------------------
(* compress_image *)

\* The "_compressed" that both programs put before the extension.
Compressed == <<"_", "c", "o", "m", "p", "r", "e", "s", "s", "e", "d">>

\* The derived output path built from the lower-cased extension.
OutputPath_LowerExt(input_path, output_path) ==
    IF output_path = NoPath
    THEN JoinPath(Parent(input_path),
                  Stem(input_path) \o Compressed
                                   \o Lower(Suffix(input_path)))
    ELSE output_path

\* Lines 61-64: the output path.
OutputPath(input_path, output_path) ==
    IF output_path = NoPath
    THEN JoinPath(Parent(input_path),
                  Stem(input_path) \o Compressed \o Suffix(input_path))
    ELSE output_path

\* Lines 69-74: flatten onto white when the image is RGBA and the output is
\* a JPEG.
NeedsFlatten(mode, output_ext) ==
    mode = "RGBA" /\ output_ext \in {E_jpg, E_jpeg}

\* Lines 78-81: the encoder by output extension.
EncoderFor(output_ext) == IF output_ext = E_png THEN "PNG" ELSE "JPEG"

\* The extension check with the list of script.py (.bmp and .tiff pass).
Unsupported_ScriptList(input_path) ==
    Lower(Suffix(input_path)) \notin script_formats

\* Line 33-34: the extension check.
Unsupported(input_path) == Lower(Suffix(input_path)) \notin supported_formats

\* Lines 44-59: the size the image has after the resize step.
TargetSize(src, max_width, max_height) ==
    IF Truthy(max_width) \/ Truthy(max_height)
    THEN NewSize(src.w, src.h, max_width, max_height)
    ELSE <<src.w, src.h>>

\* Line 58-59: the resampler is called when the size changed.
ResizeCalls(src, size) ==
    IF size # <<src.w, src.h>>
    THEN <<[call |-> "resize", w |-> size[1], h |-> size[2]]>>
    ELSE <<>>

ExistsCall(p) == [call |-> "exists", path |-> p]
OpenCall(p) == [call |-> "open", path |-> p]

\* What a call of compress_image leaves: the file system after it, the
\* library calls it made, the exception that escaped (<<>> if none) and the
\* value returned.
Outcome(f, calls, exc, ret) ==
    [fs |-> f, io |-> calls, raised |-> exc, returned |-> ret]

\* Lines 76-85: save and return.
SaveStep(f, partial, calls, out, img, fmt, qarg, flatten) ==
    Outcome(SaveFile(f, out, img, fmt, qarg, partial),
            Append(calls, SaveCall(out, img, fmt, qarg, flatten)),
            IF SaveOk(out, fmt, img.mode)
            THEN <<>>
            ELSE <<Exc("ValueError", "Error saving compressed image")>>,
            IF SaveOk(out, fmt, img.mode) THEN out ELSE NoPath)

\* Lines 66-81: flatten if needed, choose the encoder and its arguments.
EncodeStep(f, q, partial, calls, src, size, out, output_ext) ==
    SaveStep(f, partial, calls, out,
             [w |-> size[1], h |-> size[2],
              mode |-> IF NeedsFlatten(src.mode, output_ext)
                       THEN "RGB" ELSE src.mode],
             EncoderFor(output_ext),
             IF EncoderFor(output_ext) = "PNG" THEN NoneInt ELSE q,
             NeedsFlatten(src.mode, output_ext))

\* Lines 58-67: the resampler rejects an empty size; otherwise go on with
\* the output path.
ResizeStep(f, q, partial, calls, src, size, out) ==
    IF size[1] < 1 \/ size[2] < 1
    THEN Outcome(f, calls,
                 <<Exc("ValueError", "height and width must be > 0")>>, NoPath)
    ELSE EncodeStep(f, q, partial, calls, src, size, out, Lower(Suffix(out)))

\* Lines 43-64, for a decoded image src.
DecodedStep(f, input_path, output_path, q, partial, src, size) ==
    ResizeStep(f, q, partial,
               <<ExistsCall(input_path), OpenCall(input_path)>>
                   \o ResizeCalls(src, size),
               src, size, OutputPath(input_path, output_path))

\* The whole call.
CompressImage(f, input_path, output_path, q, max_width, max_height, partial) ==
    IF ~Exists(f, input_path)
    THEN Outcome(f, <<ExistsCall(input_path)>>,
                 <<Exc("FileNotFoundError", "Input file not found")>>, NoPath)
    ELSE IF Unsupported(input_path)
    THEN Outcome(f, <<ExistsCall(input_path)>>,
                 <<Exc("ValueError", "Unsupported file format")>>, NoPath)
    ELSE IF f[input_path].kind # "image"
    THEN Outcome(f, <<ExistsCall(input_path), OpenCall(input_path)>>,
                 <<Exc("ValueError", "Error opening image")>>, NoPath)
    ELSE DecodedStep(f, input_path, output_path, q, partial, f[input_path],
                     TargetSize(f[input_path], max_width, max_height))

----------------------------------------------------------------------------
(* main of image_compressor.py *)

\* Lines 141-144: the report printed on success.
Report(input_path, output_path) ==
    << [line |-> "Image compressed successfully!", path |-> NoPath],
       [line |-> "Input", path |-> input_path],
       [line |-> "Output", path |-> output_path],
       [line |-> "Size reduction", path |-> NoPath] >>

\* The quality check without its upper limit.
QualityRejected_NoUpper(q) == q < MinQuality

\* Line 117: the quality check of the command line.
QualityRejected(q) == q < MinQuality \/ q > MaxQuality

GetSize(p) == [call |-> "getsize", path |-> p]

\* What a run of main leaves.
MainOutcome(r, calls, called, code, out, err) ==
    [fs |-> r.fs, io |-> calls, raised |-> r.raised, returned |-> r.returned,
     called |-> called, exitcode |-> code, stdout |-> out, stderr |-> err]

\* Lines 126-148, once compress_image ended with r.
MainReport(a, r) ==
    IF r.raised # <<>>
    THEN MainOutcome(r, <<GetSize(a.input)>> \o r.io,
                     {"get_file_size_mb", "compress_image"}, 1, <<>>,
                     <<"Error: " \o r.raised[1].msg>>)
    ELSE MainOutcome(r, <<GetSize(a.input)>> \o r.io
                            \o <<GetSize(r.returned)>>,
                     {"get_file_size_mb", "compress_image"}, 0,
                     Report(a.input, r.returned), <<>>)

\* The whole run of main once the arguments are parsed.
MainRun(f, a, partial) ==
    IF QualityRejected(a.quality)
    THEN MainOutcome(Outcome(f, <<>>, <<>>, NoPath), <<>>, {}, 1, <<>>,
                     <<"Error: Quality must be between 1 and 100">>)
    ELSE IF ~Exists(f, a.input)
    THEN MainOutcome(Outcome(f, <<>>, <<>>, NoPath), <<GetSize(a.input)>>,
                     {"get_file_size_mb"}, 1, <<>>,
                     <<"Error: No such file or directory">>)
    ELSE MainReport(a, CompressImage(f, a.input, a.output, a.quality,
                                     a.max_width, a.max_height, partial))

----------------------------------------------------------------------------
(* script.py *)

\* Image.save picks the encoder from the lower-cased extension of the path.
FormatByExtension(ext) ==
    CASE Lower(ext) = E_png  -> "PNG"
      [] Lower(ext) \in {E_jpg, E_jpeg} -> "JPEG"
      [] Lower(ext) = E_bmp  -> "BMP"
      [] Lower(ext) = E_tiff -> "TIFF"
      [] OTHER -> "unknown"

ScriptOutcome(f, calls, line) == [fs |-> f, io |-> calls, stdout |-> <<line>>]

\* Lines 12-18 of script.py: the output path and the save.
ScriptSave(f, path, q, partial, img, out, fmt) ==
    ScriptOutcome(SaveFile(f, out, img, fmt, q, partial),
                  <<OpenCall(path), SaveCall(out, img, fmt, q, FALSE)>>,
                  IF SaveOk(out, fmt, img.mode)
                  THEN "Image compressed and saved as"
                  ELSE "Error compressing image")

\* Line 12-13 of script.py.
ScriptOutputPath(path) == SplitExt(path)[1] \o Compressed \o SplitExt(path)[2]

\* image_compressor(file_path, quality): every exception is caught and
\* printed.
ImageCompressor(f, path, q, partial) ==
    IF ~EndsWith(Lower(path), script_formats)
    THEN ScriptOutcome(f, <<>>, "Unsupported image format!")
    ELSE IF ~Exists(f, path) \/ f[path].kind # "image"
    THEN ScriptOutcome(f, <<OpenCall(path)>>, "Error compressing image")
    ELSE ScriptSave(f, path, q, partial,
                    [w |-> f[path].w, h |-> f[path].h, mode |-> f[path].mode],
                    ScriptOutputPath(path),
                    FormatByExtension(SplitExt(path)[2]))

----------------------------------------------------------------------------
(* Inputs *)

InputPaths == {P_a_png, P_b_JPG, P_c_jpeg, P_e_bmp, P_f}

\* Output paths a caller passes: none, a path of each kind, a path in a
\* directory that does not exist, or the input path itself.
OutputChoices(input_path) ==
    {NoPath, O_o_png, O_o_JPG, O_o_bmp, O_x_o_png, input_path}

Qualities ==
    {MinQuality - 1, MinQuality, DefaultQuality, MaxQuality, MaxQuality + 1}

\* Answers of the quality prompt: cancelled, or an integer in 1..500.
PromptAnswers ==
    {NoneInt, MinQuality, MaxQuality, MaxQuality + 1, PromptMaxQuality}

SizeBounds == {NoneInt} \cup (0..MaxDim)

Contents ==
    {Garbage} \cup
    {ImageFile(w, h, m, FromSource) : w \in 1..MaxDim, h \in 1..MaxDim,
                                      m \in Modes}

Request(input_path, output_path, q, max_width, max_height) ==
    [input |-> input_path, output |-> output_path, quality |-> q,
     max_width |-> max_width, max_height |-> max_height]

NoRequest == Request(NoPath, NoPath, NoneInt, NoneInt, NoneInt)

----------------------------------------------------------------------------
(* The state machine: one run of one of the three programs *)

\* One file is on disk when the program starts.
Init ==
    /\ \E p \in InputPaths, c \in Contents : fs = [x \in {p} |-> c]
    /\ pc = "start"
    /\ entry = "none"
    /\ request = NoRequest
    /\ io = <<>>
    /\ raised = <<>>
    /\ returned = NoPath
    /\ exitcode = NoneInt
    /\ stdout = <<>>
    /\ stderr = <<>>
    /\ invoked = {}
    /\ file_path = NoPath
    /\ quality = NoneInt

\* script.py line 35: "if file_path".
FileChosen(answer) == answer # NoPath

\* The cancelled prompt taken for an answer.
QualityGiven_Always(answer) == TRUE

\* script.py line 44: "if quality is not None".
QualityGiven(answer) == answer # NoneInt

\* A caller calls compress_image directly.
CallCompressImage ==
    /\ pc = "start"
    /\ \E i \in InputPaths, q \in Qualities, mw \in SizeBounds,
          mh \in SizeBounds, partial \in BOOLEAN :
        \E o \in OutputChoices(i) :
          \E r \in {CompressImage(fs, i, o, q, mw, mh, partial)} :
              /\ fs' = r.fs
              /\ io' = r.io
              /\ raised' = r.raised
              /\ returned' = r.returned
              /\ request' = Request(i, o, q, mw, mh)
    /\ pc' = "done"
    /\ entry' = "compress_image"
    /\ invoked' = {"compress_image"}
    /\ UNCHANGED <<exitcode, stdout, stderr, file_path, quality>>

\* The command-line tool runs with parsed arguments.
Main ==
    /\ pc = "start"
    /\ \E i \in InputPaths, q \in Qualities, mw \in SizeBounds,
          mh \in SizeBounds, partial \in BOOLEAN :
        \E o \in OutputChoices(i) :
          \E r \in {MainRun(fs, Request(i, o, q, mw, mh), partial)} :
              /\ fs' = r.fs
              /\ io' = r.io
              /\ raised' = r.raised
              /\ returned' = r.returned
              /\ exitcode' = r.exitcode
              /\ stdout' = r.stdout
              /\ stderr' = r.stderr
              /\ invoked' = r.called
              /\ request' = Request(i, o, q, mw, mh)
    /\ pc' = "done"
    /\ entry' = "main"
    /\ UNCHANGED <<file_path, quality>>

\* script.py, lines 26-35 and 48-49: the file picker returns an answer.
ScriptFilePrompt ==
    /\ pc = "start"
    /\ entry' = "script"
    /\ \E answer \in {NoPath} \cup InputPaths :
        /\ file_path' = answer
        /\ IF FileChosen(answer)
           THEN /\ pc' = "quality_prompt"
                /\ stdout' = <<"Select an image file to compress">>
                /\ exitcode' = exitcode
           ELSE /\ pc' = "done"
                /\ stdout' = <<"Select an image file to compress",
                               "No file selected.">>
                /\ exitcode' = 0
    /\ UNCHANGED <<fs, request, io, raised, returned, stderr, invoked,
                   quality>>

\* script.py, lines 37-47: the quality prompt returns an answer.
ScriptQualityPrompt ==
    /\ pc = "quality_prompt"
    /\ \E answer \in PromptAnswers, partial \in BOOLEAN :
        /\ quality' = answer
        /\ IF QualityGiven(answer)
           THEN \E r \in {ImageCompressor(fs, file_path, answer, partial)} :
                    /\ fs' = r.fs
                    /\ io' = r.io
                    /\ stdout' = stdout \o r.stdout
                    /\ invoked' = {"image_compressor"}
           ELSE /\ stdout' = Append(stdout, "Compression cancelled by user.")
                /\ UNCHANGED <<fs, io, invoked>>
    /\ pc' = "done"
    /\ exitcode' = 0
    /\ UNCHANGED <<entry, request, raised, returned, stderr, file_path>>

Next ==
    \/ CallCompressImage
    \/ Main
    \/ ScriptFilePrompt
    \/ ScriptQualityPrompt

Spec == Init /\ [][Next]_vars

----------------------------------------------------------------------------
(* Reading the trace *)

Calls(trace, kind) == SelectSeq(trace, LAMBDA c : c.call = kind)

\* This step is a call of compress_image, directly or from main.
CompressStep == pc = "start" /\ "compress_image" \in invoked'

\* This step is a call of compress_image that decodes an image.
DecodeStep ==
    /\ CompressStep
    /\ Exists(fs, request'.input)
    /\ fs[request'.input].kind = "image"
    /\ Calls(io', "open") # <<>>

\* The bound is omitted or a positive integer.
OmittedOrPositive(n) == n = NoneInt \/ n >= 1

\* The size of the image after the resize step: the size handed to the
\* resampler, or the original size when the resampler was not called.
SizeUsed(src, trace) ==
    IF Calls(trace, "resize") = <<>>
    THEN <<src.w, src.h>>
    ELSE <<Calls(trace, "resize")[1].w, Calls(trace, "resize")[1].h>>

\* The files whose content differs between f and g.
Changed(f, g) ==
    {p \in DOMAIN f \cup DOMAIN g :
        IF p \in DOMAIN f /\ p \in DOMAIN g THEN f[p] # g[p]
        ELSE IF p \in DOMAIN g THEN g[p] # Absent
        ELSE f[p] # Absent}

----------------------------------------------------------------------------
(* C1 *)

\* C1: compress_image validates before anything else.  A missing input
\* raises FileNotFoundError whatever its extension; an existing input whose
\* lower-cased extension is not .png, .jpg or .jpeg raises the error
\* "Unsupported file format"; in both cases nothing is decoded and no file is
\* written.
C1_ValidatesFirst ==
    [][CompressStep =>
        /\ ~Exists(fs, request'.input) =>
              /\ raised' = <<Exc("FileNotFoundError", "Input file not found")>>
              /\ Calls(io', "open") = <<>>
              /\ Calls(io', "save") = <<>>
              /\ fs' = fs
        /\ (/\ Exists(fs, request'.input)
            /\ Lower(Suffix(request'.input)) \notin {E_png, E_jpg, E_jpeg}) =>
              /\ raised' = <<Exc("ValueError", "Unsupported file format")>>
              /\ Calls(io', "open") = <<>>
              /\ Calls(io', "save") = <<>>
              /\ fs' = fs
    ]_vars

\* An existing .bmp file was rejected after the existence check alone.
C1_Witness ==
    /\ entry = "compress_image"
    /\ request.input = P_e_bmp
    /\ Exists(fs, P_e_bmp)
    /\ raised = <<Exc("ValueError", "Unsupported file format")>>
    /\ io = <<ExistsCall(P_e_bmp)>>

----------------------------------------------------------------------------
(* C2 *)

\* round(a * b / c), ties to the even integer.
RoundDiv(a, b, c) ==
    LET n == a * b
        d == n \div c
        r == n % c
    IN  IF 2 * r < c THEN d
        ELSE IF 2 * r > c THEN d + 1
        ELSE IF d % 2 = 0 THEN d ELSE d + 1

\* The two-stage reference of the specification.
RefSize(W, H, max_width, max_height) ==
    LET first  == IF max_width # NoneInt /\ W > max_width
                  THEN <<max_width, RoundDiv(H, max_width, W)>>
                  ELSE <<W, H>>
    IN  IF max_height # NoneInt /\ first[2] > max_height
        THEN <<RoundDiv(first[1], max_height, first[2]), max_height>>
        ELSE first

\* C2: for every decoded image and every combination of given or omitted
\* max_width and max_height, the size compress_image hands to the resampler
\* is the two-stage reference computed with round().
C2_SizeIsRoundedReference ==
    [][(/\ DecodeStep
        /\ OmittedOrPositive(request'.max_width)
        /\ OmittedOrPositive(request'.max_height)) =>
          SizeUsed(fs[request'.input], io') =
              RefSize(fs[request'.input].w, fs[request'.input].h,
                      request'.max_width, request'.max_height)
    ]_vars

----------------------------------------------------------------------------
(* C3 *)

\* C3: a successful call returns the path it wrote to: the explicit output
\* path verbatim, or else the input path with "_compressed" put before its
\* extension as spelled, in the directory of the input; a file is at the
\* returned path after the call.
C3_ReturnsWrittenPath ==
    [][(CompressStep /\ raised' = <<>>) =>
        /\ returned' # NoPath
        /\ Exists(fs', returned')
        /\ fs'[returned'].kind = "image"
        /\ Calls(io', "save")[1].path = returned'
        /\ request'.output # NoPath => returned' = request'.output
        /\ request'.output = NoPath =>
              \E e \in {E_png, E_jpg, E_jpeg} :
                LET n == Len(request'.input)
                    k == n - Len(e)
                IN  /\ Lower(SubSeq(request'.input, k + 1, n)) = e
                    /\ returned' = SubSeq(request'.input, 1, k) \o Compressed
                                       \o SubSeq(request'.input, k + 1, n)
                    /\ Parent(returned') = Parent(request'.input)
    ]_vars

\* b.JPG was compressed without an output path and b_compressed.JPG exists.
C3_Witness ==
    /\ entry = "compress_image"
    /\ request.input = P_b_JPG
    /\ request.output = NoPath
    /\ raised = <<>>
    /\ returned = <<"b">> \o Compressed \o <<".", "J", "P", "G">>
    /\ Exists(fs, returned)

----------------------------------------------------------------------------
(* C4 *)

\* C4: compress_image never changes the input file, whether it succeeds or
\* fails and whatever the output path is, and it writes at most one file.
C4_InputFileUntouched ==
    [][CompressStep =>
        /\ Exists(fs, request'.input) =>
              /\ Exists(fs', request'.input)
              /\ fs'[request'.input] = fs[request'.input]
        /\ Cardinality(Changed(fs, fs')) <= 1
    ]_vars

----------------------------------------------------------------------------
(* C5 *)

\* C5: when the decoded image has an alpha channel (any mode that carries
\* one) and the output extension is .jpg or .jpeg, the image handed to the
\* JPEG encoder is an opaque RGB image flattened onto white; otherwise the
\* image is handed to the encoder with its mode unchanged.
C5_AlphaFlattenedForJpeg ==
    [][(DecodeStep /\ Calls(io', "save") # <<>>) =>
        LET s   == Calls(io', "save")[1]
            src == fs[request'.input]
        IN  IF HasAlpha(src.mode) /\ Lower(Suffix(s.path)) \in {E_jpg, E_jpeg}
            THEN s.mode = "RGB" /\ s.flattened
            ELSE s.mode = src.mode /\ ~s.flattened
    ]_vars

----------------------------------------------------------------------------
(* C6 *)

\* C6: the encoder follows the lower-cased output extension alone: PNG
\* (optimize on, no quality) exactly for .png, JPEG (the given quality,
\* optimize on) exactly for .jpg and .jpeg, and no other output path is
\* encoded as PNG or JPEG.
C6_EncoderByExtension ==
    ("compress_image" \in invoked /\ Calls(io, "save") # <<>>) =>
        LET s   == Calls(io, "save")[1]
            ext == Lower(Suffix(s.path))
        IN  /\ s.fmt = "PNG" <=> ext = E_png
            /\ s.fmt = "JPEG" <=> ext \in {E_jpg, E_jpeg}
            /\ s.fmt = "PNG" => s.optimize /\ s.quality = NoneInt
            /\ s.fmt = "JPEG" => s.optimize /\ s.quality = request.quality

----------------------------------------------------------------------------
(* C7 *)

\* C7: a run of the command-line tool ends in exactly one of two ways: exit
\* code 0 with the size report on standard output when compression
\* succeeded, or exit code 1 with a single message on standard error for
\* every failure; a quality outside 1..100 is rejected before any file is
\* read or written.
C7_ExitCodes ==
    (entry = "main" /\ pc = "done") =>
        /\ exitcode \in {0, 1}
        /\ exitcode = 0 <=>
              ("compress_image" \in invoked /\ raised = <<>>
                  /\ Calls(io, "save") # <<>>)
        /\ exitcode = 0 =>
              /\ stdout = Report(request.input, returned)
              /\ stderr = <<>>
              /\ Exists(fs, returned)
        /\ exitcode = 1 => Len(stderr) = 1 /\ stdout = <<>>
        /\ (request.quality < 1 \/ request.quality > 100) =>
              exitcode = 1 /\ io = <<>> /\ invoked = {}

\* The resampler refused an empty size; main caught the error and exited 1.
C7_Witness ==
    /\ entry = "main"
    /\ pc = "done"
    /\ exitcode = 1
    /\ raised = <<Exc("ValueError", "height and width must be > 0")>>
    /\ stderr = <<"Error: height and width must be > 0">>

----------------------------------------------------------------------------
(* C8 *)

\* C8: the interactive variant asks for the file, then for the quality, then
\* writes: when the file picker or the quality prompt is cancelled,
\* image_compressor is not called and no file is written; a file is written
\* only by the step that follows both answers.
C8_CancelWritesNothing ==
    [][entry' = "script" =>
        /\ (file_path' = NoPath \/ quality' = NoneInt) =>
              /\ fs' = fs
              /\ io' = <<>>
              /\ "image_compressor" \notin invoked'
        /\ (fs' # fs \/ "image_compressor" \in invoked') =>
              /\ pc = "quality_prompt"
              /\ file_path # NoPath
              /\ file_path' = file_path
              /\ quality' # NoneInt
        /\ pc' = "quality_prompt" => pc = "start" /\ file_path' # NoPath
    ]_vars

\* A file was chosen and the quality prompt was cancelled.
C8_Witness ==
    /\ entry = "script"
    /\ pc = "done"
    /\ file_path # NoPath
    /\ quality = NoneInt
    /\ stdout = <<"Select an image file to compress",
                  "Compression cancelled by user.">>

----------------------------------------------------------------------------
(* C9 *)

\* C9: whichever program reaches the encoder, the quality it passes to the
\* encoder is an integer in 1..100.
C9_QualityInRange ==
    \A i \in 1..Len(io) :
        (io[i].call = "save" /\ io[i].quality # NoneInt) =>
            io[i].quality \in 1..100

----------------------------------------------------------------------------
(* C10 *)

\* C10: for bounds that are omitted or at least 1, the final size (w,h) of an
\* image of size (W,H) has 1 <= w <= W and 1 <= h <= H, w <= max_width and
\* h <= max_height when these are given, and the resampler is called only
\* when (w,h) differs from (W,H).
C10_SizeInRange ==
    [][(/\ DecodeStep
        /\ OmittedOrPositive(request'.max_width)
        /\ OmittedOrPositive(request'.max_height)) =>
        LET src  == fs[request'.input]
            size == SizeUsed(src, io')
        IN  /\ 1 <= size[1] /\ size[1] <= src.w
            /\ 1 <= size[2] /\ size[2] <= src.h
            /\ request'.max_width # NoneInt => size[1] <= request'.max_width
            /\ request'.max_height # NoneInt => size[2] <= request'.max_height
            /\ Calls(io', "resize") # <<>> => size # <<src.w, src.h>>
    ]_vars

====
